---- MODULE Spec2Model ----
(***************************************************************************)
(* Model of OCTL.process_shapefiles (src/octl.py): the raw TIGER/Line      *)
(* folder is imported into a scratch geodatabase, the county layer is      *)
(* selected, every other feature class of the scratch geodatabase is       *)
(* dispatched on its codebook method, metadata is applied and the scratch  *)
(* geodatabase is deleted.  The vendor geoprocessing tools are modelled by *)
(* what they do to the rows of a dataset; a geometry is a set of cells of  *)
(* a line, one cell standing for 1000 feet.  A tool may also raise: the    *)
(* exception leaves the function.  Three more specifications stand on     *)
(* their own: SpecRaw for OCTL.get_raw_data, the scan of the data/raw      *)
(* directory; SpecGdb for OCTL.scratch_gdb and OCTL.create_gdb; SpecMaps   *)
(* for the map section of the Part 2 driver (p02_gis_map_processing.py).   *)
(***************************************************************************)
EXTENDS Integers, Sequences, FiniteSets, TLC

\* ------------------------------------------------------------------ bounds
MaxFiles == 2
MaxRows == 1
MaxRuns == 2
MaxEntries == 2
MaxNames == 2
MaxCalls == 3
MaxMaps == 2
MaxYears == 2

\* --------------------------------------------------------------- constants
Year == 2020
SearchDistance == 1

EmptyFn == [x \in {} |-> {}]

\* ------------------------------------------------------------ rows, inputs
\* Rows of the raw files: FIPS attributes (unsuffixed and "20"-suffixed) and
\* a geometry.  The county polygon of Orange County covers cells 1..3: the
\* first row lies inside it, the second straddles its boundary, the third
\* lies outside (county 059 of another state).
RowPool ==
  { [STATEFP |-> "06", COUNTYFP |-> "059", STATEFP20 |-> "06", COUNTYFP20 |-> "037", geom |-> {1, 2}],
    [STATEFP |-> "06", COUNTYFP |-> "037", STATEFP20 |-> "06", COUNTYFP20 |-> "059", geom |-> {3, 4}],
    [STATEFP |-> "48", COUNTYFP |-> "059", STATEFP20 |-> "48", COUNTYFP20 |-> "059", geom |-> {0}] }

CountyPool ==
  { [STATEFP |-> "06", COUNTYFP |-> "059", STATEFP20 |-> "06", COUNTYFP20 |-> "059", geom |-> {1, 2, 3}],
    [STATEFP |-> "06", COUNTYFP |-> "037", STATEFP20 |-> "06", COUNTYFP20 |-> "037", geom |-> {4}] }

RowSets(pool) == {rs \in SUBSET pool : Cardinality(rs) <= MaxRows}

\* The rows of a file no step of the run reads (a table, a layer the
\* codebook marks none or does not know) are one fixed row.
Unread == {"06059_edges", "06059_addr", "us_zzz"}
UnreadRows ==
  {[STATEFP |-> "06", COUNTYFP |-> "059", STATEFP20 |-> "06", COUNTYFP20 |-> "059", geom |-> {2}]}

\* Files a raw folder may hold besides tl_<year>_us_county; "us_zzz" is a
\* layer the codebook does not know, "06059_addr" is a .dbf table.
LoopLayers == {"06_bg", "06_tabblock20", "06_place", "us_cd116", "06_cd118",
               "06059_roads", "06059_edges", "06059_addr", "us_zzz"}
Tables == {"06059_addr"}
LayerOrder == <<"06059_addr", "06059_edges", "06059_roads", "06_bg", "06_cd118",
                "06_place", "06_tabblock20", "us_cd116", "us_county", "us_zzz">>
CodeOrder == <<"AD", "BG", "BL", "CD", "CO", "ED", "PL", "RD", "ZZ">>

SeqOf(order, S) == LET In(x) == x \in S IN SelectSeq(order, In)

\* Dataset names: tl_<year>_<layer> in the raw folder and the scratch
\* geodatabase, <layer> once the prefix is removed.
FcName(f) == <<"tl", Year, f>>
StripPrefix(n) == IF n[1] = "tl" /\ n[2] = Year THEN n[3] ELSE n

\* ------------------------------------------------------------ the codebook
Alias(label) == <<"OCTL", ToString(Year), label>>

cb ==
  [l \in {"us_county", "06_bg", "06_tabblock20", "06_place", "us_cd116", "06_cd118",
          "06059_roads", "06059_edges", "06059_addr"} |->
     CASE l = "us_county"     -> [code2 |-> "CO", method |-> "query",   alias |-> Alias("Orange County")]
       [] l = "06_bg"         -> [code2 |-> "BG", method |-> "query",   alias |-> Alias("Block Groups")]
       [] l = "06_tabblock20" -> [code2 |-> "BL", method |-> "query20", alias |-> Alias("Blocks")]
       [] l = "06_place"      -> [code2 |-> "PL", method |-> "clip",    alias |-> Alias("Cities or Places")]
       [] l = "us_cd116"      -> [code2 |-> "CD", method |-> "within",  alias |-> Alias("Congressional Districts 116th")]
       [] l = "06_cd118"      -> [code2 |-> "CD", method |-> "query",   alias |-> Alias("Congressional Districts 118th")]
       [] l = "06059_roads"   -> [code2 |-> "RD", method |-> "copy",    alias |-> Alias("All Roads")]
       [] l = "06059_edges"   -> [code2 |-> "ED", method |-> "none",    alias |-> Alias("All Lines")]
       [] l = "06059_addr"    -> [code2 |-> "AD", method |-> "copy",    alias |-> Alias("Address Ranges")]]

\* ---------------------------------------------------------------- metadata
Credits == "Dr. Kostas Alexandridis, GISP"
Access == "CC-SA-BY"
Uri == "https://ocpw.maps.arcgis.com/sharing/rest/content/items/20c4b722b7d84db3a4e163fc0ce11102/data"

DefaultMd == [title |-> <<>>, tags |-> "", summary |-> <<>>, description |-> <<>>,
              credits |-> "", access |-> "", uri |-> ""]

Label(l) ==
  CASE l = "us_county"     -> "Orange County"
    [] l = "06_bg"         -> "Block Groups Feature Class"
    [] l = "06_tabblock20" -> "Blocks"
    [] l = "06_place"      -> "Cities or Places"
    [] l = "us_cd116"      -> "Congressional Districts of the 116th US Congress"
    [] l = "06_cd118"      -> "Congressional Districts 118th"
    [] l = "06059_roads"   -> "All Roads Feature Class"
    [] l = "06059_edges"   -> "All Lines Feature Class"
    [] l = "06059_addr"    -> "Address Ranges Relationship File Table"

process_metadata ==
  [l \in {"us_county", "06_bg", "06_tabblock20", "06_place", "us_cd116", "06_cd118",
          "06059_roads", "06059_edges", "06059_addr"} |->
     [title |-> <<"OCTL", ToString(Year), Label(l)>>,
      tags |-> l,
      summary |-> <<"Orange County Tiger Lines", ToString(Year), Label(l)>>,
      description |-> <<"Orange County Tiger Lines", ToString(Year), Label(l)>>,
      credits |-> Credits, access |-> Access, uri |-> Uri]]

GdbMd ==
  [title |-> <<"TL", ToString(Year), "TigerLine Geodatabase">>,
   tags |-> "Orange County, California, OCTL, TigerLine, Geodatabase",
   summary |-> <<"Orange County TigerLine Geodatabase for the", ToString(Year), "year data">>,
   description |-> <<"Orange County TigerLine Geodatabase for the", ToString(Year), "year data.">>,
   credits |-> Credits, access |-> Access, uri |-> Uri]

\* A title (the parts of an f-string) contains the year when the formatted
\* year is one of its parts.
TitleHasYear(t, y) == \E k \in DOMAIN t : t[k] = ToString(y)

\* ------------------------------------------------------- the geodatabases
NoGdb == [exists |-> FALSE, fcs |-> EmptyFn, tbls |-> EmptyFn]
NewScratch == [exists |-> TRUE, fcs |-> EmptyFn, tbls |-> EmptyFn]
StaleScratch == [exists |-> TRUE,
                 fcs |-> (FcName("06_bg") :> {}),
                 tbls |-> EmptyFn]

NoTlGdb == [exists |-> FALSE, data |-> EmptyFn, md |-> DefaultMd]
NewTlGdb == [exists |-> TRUE, data |-> EmptyFn, md |-> DefaultMd]
Dataset(rows, type) == [rows |-> rows, alias |-> <<>>, md |-> DefaultMd, type |-> type]
StaleTlGdb == [exists |-> TRUE,
               data |-> ("ZZ" :> Dataset({}, "tbl")),
               md |-> DefaultMd]

Restrict(f, S) == [x \in S |-> f[x]]

\* --------------------------------------------------- geoprocessing tools
SelectEither(rows, sf, cf) == {r \in rows : r[sf] = "06" \/ r[cf] = "059"}

\* arcpy.analysis.Select with the where clause <sf> = '06' And <cf> = '059'
Select(rows, sf, cf) == {r \in rows : r[sf] = "06" /\ r[cf] = "059"}

ClipWholeFeatures(rows, clipGeom) == {x \in rows : x.geom \cap clipGeom # {}}

\* arcpy.analysis.Clip: the part of every feature inside the clip polygon
Clip(rows, clipGeom) ==
  {[r EXCEPT !.geom = r.geom \cap clipGeom] : r \in {x \in rows : x.geom \cap clipGeom # {}}}

\* The polygon moved inward by d cells (a negative search distance).
Shrink(G, d) == {c \in G : \A k \in (c - d)..(c + d) : k \in G}

CopyCountyRows(rows) == {r \in rows : r.STATEFP = "06" /\ r.COUNTYFP = "059"}

\* arcpy.management.Copy(in_data, out_data, "FeatureClass")
Copy(rows) == rows

\* Some point of A is at most d cells away from some point of B
WithinDistance(A, B, d) == \E a \in A : \E b \in B : a - b <= d /\ b - a <= d

SelectLayerByLocationOutward(rows, selGeom, d) ==
  {r \in rows : WithinDistance(r.geom, selGeom, d)}

\* arcpy.management.SelectLayerByLocation, WITHIN_A_DISTANCE, "-1000 Feet"
SelectLayerByLocation(rows, selGeom, d) == {r \in rows : r.geom \cap Shrink(selGeom, d) # {}}

\* arcpy.management.GetCount(...) == 0 compares a Result object with an int
ResultEqualsInt(count, n) == FALSE

\* A geoprocessing output written to <tl_gdb>/<code> (overwriteOutput = True)
WriteOutput(g, code, rows) ==
  [g EXCEPT !.data = (code :> Dataset(rows, "fc")) @@ g.data]
DeleteOutput(g, code) ==
  [g EXCEPT !.data = Restrict(g.data, DOMAIN g.data \ {code})]
AlterAliasName(g, code, alias) ==
  [g EXCEPT !.data[code].alias = alias]
GetCount(g, code) == Cardinality(g.data[code].rows)

\* The geometry of the county boundary feature class out_oc
CountyGeom(g) == UNION {r.geom : r \in g.data["CO"].rows}

\* arcpy.management.Delete / CreateFileGDB on a geodatabase path
Delete(g) == NoGdb
CreateFileGDB(g) == IF g.exists THEN g ELSE NewScratch
DeleteTl(g) == NoTlGdb
CreateTlGDB(g) == IF g.exists THEN g ELSE NewTlGdb

scratch_gdb_kept(method, s) ==
  IF method = "create"
    THEN CreateFileGDB(IF s.exists THEN Delete(s) ELSE s)
  ELSE s

scratch_gdb_reuses(method, s) ==
  IF method = "create"
    THEN CreateFileGDB(s)
  ELSE IF method = "delete"
    THEN (IF ~s.exists THEN s ELSE Delete(s))
  ELSE s

scratch_gdb_default_deletes(method, s) ==
  IF method = "create"
    THEN CreateFileGDB(IF s.exists THEN Delete(s) ELSE s)
  ELSE IF ~s.exists THEN s ELSE Delete(s)

\* OCTL.scratch_gdb
scratch_gdb(method, s) ==
  IF method = "create"
    THEN CreateFileGDB(IF s.exists THEN Delete(s) ELSE s)
  ELSE IF method = "delete"
    THEN (IF ~s.exists THEN s ELSE Delete(s))
  ELSE s

\* What scratch_gdb returns: gdb_path, or None from the bare return of the
\* delete branch when there is nothing to delete
ScratchPath == <<"gis", "scratch.gdb">>
scratch_gdb_returns(method, s) ==
  IF method = "delete" /\ ~s.exists THEN <<>> ELSE ScratchPath

create_gdb_reused(g) ==
  IF ~g.exists THEN CreateTlGDB(g) ELSE g

\* OCTL.create_gdb
create_gdb(g) ==
  IF ~g.exists THEN CreateTlGDB(g) ELSE CreateTlGDB(DeleteTl(g))

\* ------------------------------------------------------------ get_raw_data
\* An entry of os.listdir(data/raw): the name "tl_<rest>" or "<rest>", and
\* whether os.path.isdir holds for it
DirEntry(tl, rest, isdir) == [name |-> [tl |-> tl, rest |-> rest], isdir |-> isdir]
EntryPool == {DirEntry(TRUE, "2020", TRUE), DirEntry(TRUE, "2021", TRUE),
              DirEntry(FALSE, "archive", TRUE), DirEntry(FALSE, "readme", FALSE)}

\* A file of the year folder: "tl_<year>_<layer>.<ext>. ...", year 0 for a
\* name without the prefix
FileName(y, l, ext) == [year |-> y, layer |-> l, ext |-> ext]
FilePool == {FileName(2020, "us_county", <<"shp">>), FileName(2020, "us_county", <<"dbf">>),
             FileName(2020, "06_bg", <<"shp">>), FileName(2020, "06_bg", <<"shp", "xml">>),
             FileName(2021, "06_bg", <<"shp">>)}

\* The listings of at most n different entries, in any order
Listings(pool, n) ==
  {s \in UNION {[1..k -> pool] : k \in 0..n} : \A a, b \in DOMAIN s : a # b => s[a] # s[b]}

\* [d for d in os.listdir(data_raw) if os.path.isdir(...)]
SubFolders(listing) == LET IsDir(e) == e.isdir IN SelectSeq(listing, IsDir)

\* tl_folder.replace("tl_", "")
WithoutTl(name) == name.rest

\* int(s): the decimal strings of the years, anything else is a ValueError
IsInt(str) == str \in {"2020", "2021"}
ParseInt(str) == IF str = "2020" THEN 2020 ELSE 2021

StemAnyYear(f, y) == [year |-> 0, layer |-> f.layer]

\* f.replace(f"tl_{tl_year}_", "").split(".")[0]
Stem(f, y) == [year |-> IF f.year = y THEN 0 ELSE f.year, layer |-> f.layer]

\* The stems in the order of Python's string comparison: the names that
\* start with a digit, then "tl_2020_...", then "tl_2021_...", then "us_..."
DigitLayers == {"06059_addr", "06059_edges", "06059_roads", "06_bg", "06_cd118",
                "06_place", "06_tabblock20"}
Stems(y, layers) ==
  LET ls == SeqOf(LayerOrder, layers)
  IN [k \in 1..Len(ls) |-> [year |-> y, layer |-> ls[k]]]
AllLayers == {LayerOrder[k] : k \in 1..Len(LayerOrder)}
StemOrder ==
  Stems(0, DigitLayers) \o Stems(2020, AllLayers) \o Stems(2021, AllLayers)
    \o Stems(0, AllLayers \ DigitLayers)

\* sorted(list({... for f in os.listdir(tl_path)}))
TlFiles(dir, y) == SeqOf(StemOrder, {Stem(f, y) : f \in dir})

\* The dictionary get_raw_data builds
TlData(folder, y, dir) ==
  [folder |-> folder, path |-> <<"data", "raw", folder>>, year |-> y,
   files |-> TlFiles(dir, y), count |-> Len(TlFiles(dir, y))]

NoFolder == [tl |-> FALSE, rest |-> ""]

\* ------------------------------------------------------ the Part 2 driver
\* Strings are sequences of characters here, so that formatting a year into
\* a map name and parsing it back are computed, not assumed.
DigitChars == <<"0", "1", "2", "3", "4", "5", "6", "7", "8", "9">>

\* str(n) of a natural number
RECURSIVE Str(_)
Str(n) == IF n < 10 THEN <<DigitChars[n + 1]>> ELSE Str(n \div 10) \o <<DigitChars[(n % 10) + 1]>>

\* int(s): defined on the non-empty digit strings, a ValueError otherwise
IsDecimal(str) == Len(str) > 0 /\ \A k \in 1..Len(str) : \E d \in 1..10 : DigitChars[d] = str[k]
DigitValue(c) == (CHOOSE d \in 1..10 : DigitChars[d] = c) - 1
RECURSIVE IntOf(_)
IntOf(str) == IF Len(str) = 0 THEN 0
              ELSE 10 * IntOf(SubSeq(str, 1, Len(str) - 1)) + DigitValue(str[Len(str)])

\* s.replace(old, ""): every occurrence of old, from the left, is removed
RECURSIVE Replace(_, _)
Replace(str, old) ==
  IF Len(str) < Len(old) THEN str
  ELSE IF SubSeq(str, 1, Len(old)) = old THEN Replace(SubSeq(str, Len(old) + 1, Len(str)), old)
  ELSE <<str[1]>> \o Replace(SubSeq(str, 2, Len(str)), old)

\* f"TL{year}"
MapName(year) == <<"T", "L">> \o Str(year)

\* The years a master codebook may be keyed by, and the names of the maps
\* a project may hold before the driver runs
YearPool == {2010, 2020, 2021}
MapPool == {<<"M", "a", "p">>, MapName(2020), MapName(2019)}

\* aprx.createMap(name): the new map is added to the project
CreateMap(maps, name) == Append(maps, name)

\* aprx.deleteItem on every map of the project that has the name
DeleteNamed(maps, name) == LET Other(n) == n # name IN SelectSeq(maps, Other)

VARIABLES raw, scratch, gdb, workspace, pc, err, run,
          scratch_fcs, fc_list, i, final_list, tl_fcs, j, temp_lyr,
          hist, written, prev,
          data_raw, tl_dir, tl_folder, tl_year, tl_data,
          cb_master, aprx, year_list, map_list, map_dict, map_year

vars == <<raw, scratch, gdb, workspace, pc, err, run,
          scratch_fcs, fc_list, i, final_list, tl_fcs, j, temp_lyr,
          hist, written, prev,
          data_raw, tl_dir, tl_folder, tl_year, tl_data,
          cb_master, aprx, year_list, map_list, map_dict, map_year>>

\* The state of the Part 2 driver
mapvars == <<cb_master, aprx, year_list, map_list, map_dict, map_year>>

\* The state of get_raw_data and the state of process_shapefiles
scanvars == <<data_raw, tl_dir, tl_folder, tl_year, tl_data>>
procvars == <<raw, scratch, gdb, workspace, run,
              scratch_fcs, fc_list, i, final_list, tl_fcs, j, temp_lyr,
              hist, written, prev>>

NoResult == [gdb |-> NoTlGdb, final_list |-> EmptyFn]
NoError == [kind |-> "none", at |-> "none"]

Init ==
  /\ \E S \in {T \in SUBSET LoopLayers : Cardinality(T) <= MaxFiles} :
       \E f \in [S \ Unread -> RowSets(RowPool)] :
         \E C \in {{}, {"us_county"}} :
           \E crs \in RowSets(CountyPool) :
             /\ C = {} => crs = {}
             /\ raw = [l \in S \cup C |->
                        IF l = "us_county" THEN crs
                        ELSE IF l \in Unread THEN UnreadRows ELSE f[l]]
  /\ scratch \in {NoGdb, StaleScratch}
  /\ gdb \in {NoTlGdb, StaleTlGdb}
  /\ workspace = "cwd"
  /\ pc = "start"
  /\ err = NoError
  /\ run = 1
  /\ scratch_fcs = <<>>
  /\ fc_list = <<>>
  /\ i = 1
  /\ final_list = EmptyFn
  /\ tl_fcs = <<>>
  /\ j = 1
  /\ temp_lyr = FALSE
  /\ hist = <<>>
  /\ written = {}
  /\ prev = NoResult
  /\ data_raw = <<DirEntry(TRUE, ToString(Year), TRUE)>>
  /\ tl_dir = {FileName(Year, l, IF l \in Tables THEN <<"dbf">> ELSE <<"shp">>) : l \in DOMAIN raw}
  /\ tl_folder = data_raw[1].name
  /\ tl_year = Year
  /\ tl_data = <<TlData(tl_folder, tl_year, tl_dir)>>
  /\ cb_master = <<>>
  /\ aprx = <<>>
  /\ year_list = <<>>
  /\ map_list = <<>>
  /\ map_dict = EmptyFn
  /\ map_year = EmptyFn

\* The statement the function is at
Where ==
  IF pc = "loop" /\ i > Len(fc_list) THEN "list_tl"
  ELSE IF pc = "metadata" /\ j > Len(tl_fcs) THEN "scratch_delete"
  ELSE pc

\* An exception leaves process_shapefiles: the function has no except clause
Fail(kind) == pc' = "error" /\ err' = [kind |-> kind, at |-> Where]

\* ---------------------------------------------------------------- actions
\* scratch_gdb = self.scratch_gdb(method = "create")
ScratchCreate ==
  /\ pc = "start"
  /\ scratch' = scratch_gdb("create", scratch)
  /\ pc' = "import"
  /\ UNCHANGED scanvars
  /\ UNCHANGED mapvars
  /\ UNCHANGED <<raw, gdb, workspace, err, run, scratch_fcs, fc_list, i,
                 final_list, tl_fcs, j, temp_lyr, hist, written, prev>>

\* FeatureClassToGeodatabase / TableToGeodatabase: every listed dataset is
\* copied into the geodatabase under its own name.
ToGeodatabase(names, existing) ==
  [n \in {FcName(l) : l \in names} \cup DOMAIN existing |->
     IF StripPrefix(n) \in names THEN raw[StripPrefix(n)] ELSE existing[n]]

\* workspace = raw folder; import the *.shp feature classes and *.dbf tables
Import ==
  /\ pc = "import"
  /\ LET shapefiles == DOMAIN raw \ Tables
         tables == DOMAIN raw \cap Tables
     IN scratch' = [scratch EXCEPT
                      !.fcs = IF shapefiles # {} THEN ToGeodatabase(shapefiles, @) ELSE @,
                      !.tbls = IF tables # {} THEN ToGeodatabase(tables, @) ELSE @]
  /\ workspace' = "raw"
  /\ pc' = "list_scratch"
  /\ UNCHANGED scanvars
  /\ UNCHANGED mapvars
  /\ UNCHANGED <<raw, gdb, err, run, scratch_fcs, fc_list, i,
                 final_list, tl_fcs, j, temp_lyr, hist, written, prev>>

\* arcpy.ListFeatureClasses() of a geodatabase: the feature classes only
ListFeatureClasses(fcs) ==
  LET ls == SeqOf(LayerOrder, {StripPrefix(n) : n \in DOMAIN fcs})
  IN [k \in 1..Len(ls) |-> FcName(ls[k])]

\* try: workspace = scratch_gdb; scratch_fcs = ListFeatureClasses()
\* finally: workspace = os.getcwd()
ListScratch ==
  /\ pc = "list_scratch"
  /\ scratch_fcs' = ListFeatureClasses(scratch.fcs)
  /\ workspace' = "cwd"
  /\ pc' = "create_gdb"
  /\ UNCHANGED scanvars
  /\ UNCHANGED mapvars
  /\ UNCHANGED <<raw, scratch, gdb, err, run, fc_list, i,
                 final_list, tl_fcs, j, temp_lyr, hist, written, prev>>

\* tl_gdb = self.create_gdb()
CreateGdb ==
  /\ pc = "create_gdb"
  /\ gdb' = create_gdb(gdb)
  /\ pc' = "county"
  /\ UNCHANGED scanvars
  /\ UNCHANGED mapvars
  /\ UNCHANGED <<raw, scratch, workspace, err, run, scratch_fcs, fc_list, i,
                 final_list, tl_fcs, j, temp_lyr, hist, written, prev>>

Entry(f, method, code, count) ==
  [layer |-> f, method |-> method, code |-> code, count |-> count]

\* The county emptiness check: an empty out_oc is deleted, nothing else.
CountyCheck(g, code) ==
  IF GetCount(g, code) = 0 THEN DeleteOutput(g, code) ELSE g

\* Select us_county into <tl_gdb>/CO, delete it when it is empty
CountySelect ==
  /\ pc = "county"
  /\ LET in_oc == FcName("us_county")
         code == cb["us_county"].code2
     IN IF in_oc \notin DOMAIN scratch.fcs
          THEN /\ Fail("ExecuteError")
               /\ UNCHANGED <<gdb, hist, written>>
          ELSE LET g1 == WriteOutput(gdb, code, Select(scratch.fcs[in_oc], "STATEFP", "COUNTYFP"))
               IN /\ gdb' = CountyCheck(g1, code)
                  /\ hist' = Append(hist, Entry("us_county", "query", code, GetCount(g1, code)))
                  /\ written' = written \cup {code}
                  /\ pc' = "build_list"
                  /\ err' = err
  /\ UNCHANGED scanvars
  /\ UNCHANGED mapvars
  /\ UNCHANGED <<raw, scratch, workspace, run, scratch_fcs, fc_list, i,
                 final_list, tl_fcs, j, temp_lyr, prev>>

\* list.remove(x): the first occurrence of x is removed
Remove(s, x) ==
  LET k == CHOOSE n \in 1..Len(s) : s[n] = x /\ \A m \in 1..(n - 1) : s[m] # x
  IN SubSeq(s, 1, k - 1) \o SubSeq(s, k + 1, Len(s))

FcListAll(fcs) == [k \in 1..Len(fcs) |-> StripPrefix(fcs[k])]

\* fc_list = the scratch names without prefix, us_county removed
FcList(fcs) == Remove([k \in 1..Len(fcs) |-> StripPrefix(fcs[k])], "us_county")

\* final_list = dict(); fc_list = [...]; fc_list.remove("us_county");
\* final_list["CO"] = "us_county"
BuildList ==
  /\ pc = "build_list"
  /\ IF "us_county" \notin {StripPrefix(scratch_fcs[k]) : k \in 1..Len(scratch_fcs)}
       THEN /\ Fail("ValueError")
            /\ UNCHANGED <<fc_list, final_list, i>>
       ELSE /\ fc_list' = FcList(scratch_fcs)
            /\ final_list' = ("CO" :> "us_county")
            /\ i' = 1
            /\ pc' = "loop"
            /\ err' = err
  /\ UNCHANGED scanvars
  /\ UNCHANGED mapvars
  /\ UNCHANGED <<raw, scratch, gdb, workspace, run, scratch_fcs,
                 tl_fcs, j, temp_lyr, hist, written, prev>>

\* The layer the loop is about to dispatch
AtLayer == pc = "loop" /\ i <= Len(fc_list)
Known == AtLayer /\ fc_list[i] \in DOMAIN cb
in_fc == FcName(fc_list[i])

CheckEmptyRegisters(g, fl, f, code) ==
  [gdb |-> AlterAliasName(g, code, cb[f].alias), final_list |-> (code :> f) @@ fl]

CheckEmptyKeyedByLayer(g, fl, f, code) ==
  IF GetCount(g, code) = 0
    THEN [gdb |-> DeleteOutput(g, code), final_list |-> fl]
    ELSE [gdb |-> AlterAliasName(g, code, cb[f].alias),
          final_list |-> (f :> code) @@ fl]

\* if count == 0: Delete(out_fc) else: final_list[code] = f; AlterAliasName
CheckEmpty(g, fl, f, code) ==
  IF GetCount(g, code) = 0
    THEN [gdb |-> DeleteOutput(g, code), final_list |-> fl]
    ELSE [gdb |-> AlterAliasName(g, code, cb[f].alias),
          final_list |-> (code :> f) @@ fl]

\* The tail every branch shares: the output g1 has been written for layer f
Finish(f, method, g1) ==
  LET code == cb[f].code2
      r == CheckEmpty(g1, final_list, f, code)
  IN /\ gdb' = r.gdb
     /\ final_list' = r.final_list
     /\ hist' = Append(hist, Entry(f, method, code, GetCount(g1, code)))
     /\ written' = written \cup {code}
     /\ i' = i + 1
     /\ pc' = pc
     /\ err' = err

DispatchUnknownSkipped ==
  /\ AtLayer
  /\ fc_list[i] \notin DOMAIN cb
  /\ i' = i + 1
  /\ UNCHANGED scanvars
  /\ UNCHANGED mapvars
  /\ UNCHANGED <<raw, scratch, gdb, workspace, pc, err, run, scratch_fcs, fc_list,
                 final_list, tl_fcs, j, temp_lyr, hist, written, prev>>

\* code = self.cb[f]["code2"] with f missing from the codebook
DispatchUnknown ==
  /\ AtLayer
  /\ fc_list[i] \notin DOMAIN cb
  /\ Fail("KeyError")
  /\ UNCHANGED scanvars
  /\ UNCHANGED mapvars
  /\ UNCHANGED <<raw, scratch, gdb, workspace, run, scratch_fcs, fc_list, i,
                 final_list, tl_fcs, j, temp_lyr, hist, written, prev>>

\* case "clip"
DispatchClip ==
  /\ Known
  /\ cb[fc_list[i]].method = "clip"
  /\ IF "CO" \notin DOMAIN gdb.data
       THEN /\ Fail("ExecuteError")
            /\ UNCHANGED <<gdb, final_list, hist, written, i>>
       ELSE Finish(fc_list[i], "clip",
                   WriteOutput(gdb, cb[fc_list[i]].code2,
                               Clip(scratch.fcs[in_fc], CountyGeom(gdb))))
  /\ UNCHANGED scanvars
  /\ UNCHANGED mapvars
  /\ UNCHANGED <<raw, scratch, workspace, run, scratch_fcs, fc_list,
                 tl_fcs, j, temp_lyr, prev>>

\* case "copy"
DispatchCopy ==
  /\ Known
  /\ cb[fc_list[i]].method = "copy"
  /\ Finish(fc_list[i], "copy",
            WriteOutput(gdb, cb[fc_list[i]].code2, Copy(scratch.fcs[in_fc])))
  /\ UNCHANGED scanvars
  /\ UNCHANGED mapvars
  /\ UNCHANGED <<raw, scratch, workspace, run, scratch_fcs, fc_list,
                 tl_fcs, j, temp_lyr, prev>>

\* case "within": MakeFeatureLayer, emptiness test of temp_lyr, selection by
\* location, export of the selection, Delete(temp_lyr)
DispatchWithin ==
  /\ Known
  /\ cb[fc_list[i]].method = "within"
  /\ LET f == fc_list[i]
         lyr == scratch.fcs[in_fc]
     IN IF ResultEqualsInt(Cardinality(lyr), 0)
          THEN /\ temp_lyr' = FALSE
               /\ i' = i + 1
               /\ pc' = pc
               /\ err' = err
               /\ UNCHANGED <<gdb, final_list, hist, written>>
          ELSE IF "CO" \notin DOMAIN gdb.data
            THEN /\ Fail("ExecuteError")
                 /\ temp_lyr' = TRUE
                 /\ UNCHANGED <<gdb, final_list, hist, written, i>>
            ELSE /\ temp_lyr' = FALSE
                 /\ Finish(f, "within",
                           WriteOutput(gdb, cb[f].code2,
                                       SelectLayerByLocation(lyr, CountyGeom(gdb), SearchDistance)))
  /\ UNCHANGED scanvars
  /\ UNCHANGED mapvars
  /\ UNCHANGED <<raw, scratch, workspace, run, scratch_fcs, fc_list,
                 tl_fcs, j, prev>>

\* case "query"
DispatchQuery ==
  /\ Known
  /\ cb[fc_list[i]].method = "query"
  /\ Finish(fc_list[i], "query",
            WriteOutput(gdb, cb[fc_list[i]].code2,
                        Select(scratch.fcs[in_fc], "STATEFP", "COUNTYFP")))
  /\ UNCHANGED scanvars
  /\ UNCHANGED mapvars
  /\ UNCHANGED <<raw, scratch, workspace, run, scratch_fcs, fc_list,
                 tl_fcs, j, temp_lyr, prev>>

\* case "query20"
DispatchQuery20 ==
  /\ Known
  /\ cb[fc_list[i]].method = "query20"
  /\ Finish(fc_list[i], "query20",
            WriteOutput(gdb, cb[fc_list[i]].code2,
                        Select(scratch.fcs[in_fc], "STATEFP20", "COUNTYFP20")))
  /\ UNCHANGED scanvars
  /\ UNCHANGED mapvars
  /\ UNCHANGED <<raw, scratch, workspace, run, scratch_fcs, fc_list,
                 tl_fcs, j, temp_lyr, prev>>

DispatchNoneCopies ==
  /\ Known
  /\ cb[fc_list[i]].method \notin {"clip", "copy", "within", "query", "query20"}
  /\ Finish(fc_list[i], cb[fc_list[i]].method,
            WriteOutput(gdb, cb[fc_list[i]].code2, Copy(scratch.fcs[in_fc])))
  /\ UNCHANGED scanvars
  /\ UNCHANGED mapvars
  /\ UNCHANGED <<raw, scratch, workspace, run, scratch_fcs, fc_list,
                 tl_fcs, j, temp_lyr, prev>>

\* case "none" (and any method no case matches): pass
DispatchNone ==
  /\ Known
  /\ cb[fc_list[i]].method \notin {"clip", "copy", "within", "query", "query20"}
  /\ hist' = Append(hist, Entry(fc_list[i], cb[fc_list[i]].method, cb[fc_list[i]].code2, -1))
  /\ i' = i + 1
  /\ UNCHANGED scanvars
  /\ UNCHANGED mapvars
  /\ UNCHANGED <<raw, scratch, gdb, workspace, pc, err, run, scratch_fcs, fc_list,
                 final_list, tl_fcs, j, temp_lyr, written, prev>>

\* try: workspace = tl_gdb; tl_fcs = ListFeatureClasses()
\* finally: workspace = os.getcwd()
ListTl ==
  /\ pc = "loop"
  /\ i > Len(fc_list)
  /\ tl_fcs' = SeqOf(CodeOrder, {c \in DOMAIN gdb.data : gdb.data[c].type = "fc"})
  /\ j' = 1
  /\ workspace' = "cwd"
  /\ pc' = "metadata"
  /\ UNCHANGED scanvars
  /\ UNCHANGED mapvars
  /\ UNCHANGED <<raw, scratch, gdb, err, run, scratch_fcs, fc_list, i,
                 final_list, temp_lyr, hist, written, prev>>

\* md_fc = md.Metadata(tl_gdb); md_fc.copy(mdo); md_fc.save()
SaveMetadata(g, fc, mdo) == [g EXCEPT !.md = mdo]

\* One pass of the loop "for fc in tl_fcs"
ApplyMetadata ==
  /\ pc = "metadata"
  /\ j <= Len(tl_fcs)
  /\ LET fc == tl_fcs[j]
     IN IF fc \notin DOMAIN final_list \/ final_list[fc] \notin DOMAIN process_metadata
          THEN /\ Fail("KeyError")
               /\ UNCHANGED <<gdb, j>>
          ELSE /\ gdb' = SaveMetadata(gdb, fc, process_metadata[final_list[fc]])
               /\ j' = j + 1
               /\ pc' = pc
               /\ err' = err
  /\ UNCHANGED scanvars
  /\ UNCHANGED mapvars
  /\ UNCHANGED <<raw, scratch, workspace, run, scratch_fcs, fc_list, i,
                 final_list, tl_fcs, temp_lyr, hist, written, prev>>

\* self.scratch_gdb(method = "delete")
ScratchDelete ==
  /\ pc = "metadata"
  /\ j > Len(tl_fcs)
  /\ scratch' = scratch_gdb("delete", scratch)
  /\ pc' = "gdb_md"
  /\ UNCHANGED scanvars
  /\ UNCHANGED mapvars
  /\ UNCHANGED <<raw, gdb, workspace, err, run, scratch_fcs, fc_list, i,
                 final_list, tl_fcs, j, temp_lyr, hist, written, prev>>

GdbMetadataKeepsExisting ==
  /\ pc = "gdb_md"
  /\ gdb' = IF gdb.md = DefaultMd THEN [gdb EXCEPT !.md = GdbMd] ELSE gdb
  /\ pc' = "done"
  /\ UNCHANGED scanvars
  /\ UNCHANGED mapvars
  /\ UNCHANGED <<raw, scratch, workspace, err, run, scratch_fcs, fc_list, i,
                 final_list, tl_fcs, j, temp_lyr, hist, written, prev>>

\* md_gdb = md.Metadata(tl_gdb); ...; md_gdb.save(); return final_list
GdbMetadata ==
  /\ pc = "gdb_md"
  /\ gdb' = [gdb EXCEPT !.md = GdbMd]
  /\ pc' = "done"
  /\ UNCHANGED scanvars
  /\ UNCHANGED mapvars
  /\ UNCHANGED <<raw, scratch, workspace, err, run, scratch_fcs, fc_list, i,
                 final_list, tl_fcs, j, temp_lyr, hist, written, prev>>

\* The statements that call a geoprocessing tool of the vendor library
VendorCall ==
  \/ pc \in {"start", "import", "list_scratch", "create_gdb", "county", "metadata", "gdb_md"}
  \/ pc = "loop" /\ i > Len(fc_list)
  \/ Known /\ cb[fc_list[i]].method \in {"clip", "copy", "within", "query", "query20"}

\* The workspace an exception leaves behind: line 1067 has set the raw folder
\* before the import tools run, the two try/finally blocks restore the cwd
WorkspaceAfterFailure ==
  IF Where = "import" THEN "raw"
  ELSE IF Where \in {"list_scratch", "list_tl"} THEN "cwd"
  ELSE workspace

VendorFailureCleansUp ==
  /\ VendorCall
  /\ Fail("ExecuteError")
  /\ workspace' = WorkspaceAfterFailure
  /\ scratch' = scratch_gdb("delete", scratch)
  /\ UNCHANGED scanvars
  /\ UNCHANGED mapvars
  /\ UNCHANGED <<raw, gdb, run, scratch_fcs, fc_list, i,
                 final_list, tl_fcs, j, temp_lyr, hist, written, prev>>

VendorFailureSwallowed ==
  /\ VendorCall
  /\ err' = [kind |-> "ExecuteError", at |-> Where]
  /\ IF Where = "loop"
       THEN pc' = pc /\ i' = i + 1
       ELSE pc' = "error" /\ i' = i
  /\ workspace' = WorkspaceAfterFailure
  /\ UNCHANGED scanvars
  /\ UNCHANGED mapvars
  /\ UNCHANGED <<raw, scratch, gdb, run, scratch_fcs, fc_list,
                 final_list, tl_fcs, j, temp_lyr, hist, written, prev>>

\* The first tool of the statement raises arcpy.ExecuteError: nothing catches
\* it, nothing is cleaned up
VendorFailure ==
  /\ VendorCall
  /\ Fail("ExecuteError")
  /\ workspace' = WorkspaceAfterFailure
  /\ UNCHANGED scanvars
  /\ UNCHANGED mapvars
  /\ UNCHANGED <<raw, scratch, gdb, run, scratch_fcs, fc_list, i,
                 final_list, tl_fcs, j, temp_lyr, hist, written, prev>>

\* The Part 1 driver is run again on the same raw folder and codebook.
Rerun ==
  /\ pc = "done"
  /\ run < MaxRuns
  /\ prev' = [gdb |-> gdb, final_list |-> final_list]
  /\ run' = run + 1
  /\ pc' = "start"
  /\ scratch_fcs' = <<>>
  /\ fc_list' = <<>>
  /\ i' = 1
  /\ final_list' = EmptyFn
  /\ tl_fcs' = <<>>
  /\ j' = 1
  /\ hist' = <<>>
  /\ written' = {}
  /\ UNCHANGED scanvars
  /\ UNCHANGED mapvars
  /\ UNCHANGED <<raw, scratch, gdb, workspace, err, temp_lyr>>

Next ==
  \/ ScratchCreate
  \/ Import
  \/ ListScratch
  \/ CreateGdb
  \/ CountySelect
  \/ BuildList
  \/ DispatchUnknown
  \/ DispatchClip
  \/ DispatchCopy
  \/ DispatchWithin
  \/ DispatchQuery
  \/ DispatchQuery20
  \/ DispatchNone
  \/ ListTl
  \/ ApplyMetadata
  \/ ScratchDelete
  \/ GdbMetadata
  \/ VendorFailure
  \/ Rerun

Spec == Init /\ [][Next]_vars

\* ------------------------------------------------- get_raw_data, on its own
\* OCTL.__init__ calls get_raw_data on a data/raw directory of any content.
InitRaw ==
  /\ data_raw \in Listings(EntryPool, MaxEntries)
  /\ tl_dir \in {d \in SUBSET FilePool : Cardinality(d) <= MaxNames}
  /\ tl_folder = NoFolder
  /\ tl_year = 0
  /\ tl_data = <<>>
  /\ cb_master = <<>>
  /\ aprx = <<>>
  /\ year_list = <<>>
  /\ map_list = <<>>
  /\ map_dict = EmptyFn
  /\ map_year = EmptyFn
  /\ pc = "get_raw_data"
  /\ err = NoError
  /\ raw = EmptyFn
  /\ scratch = NoGdb
  /\ gdb = NoTlGdb
  /\ workspace = "cwd"
  /\ run = 1
  /\ scratch_fcs = <<>>
  /\ fc_list = <<>>
  /\ i = 1
  /\ final_list = EmptyFn
  /\ tl_fcs = <<>>
  /\ j = 1
  /\ temp_lyr = FALSE
  /\ hist = <<>>
  /\ written = {}
  /\ prev = NoResult

\* tl_folder = [d for d in os.listdir(data_raw) if isdir(d)][0]
FirstFolder ==
  /\ pc = "get_raw_data"
  /\ IF Len(SubFolders(data_raw)) = 0
       THEN /\ Fail("IndexError")
            /\ UNCHANGED tl_folder
       ELSE /\ tl_folder' = SubFolders(data_raw)[1].name
            /\ pc' = "tl_year"
            /\ err' = err
  /\ UNCHANGED <<data_raw, tl_dir, tl_year, tl_data>>
  /\ UNCHANGED procvars
  /\ UNCHANGED mapvars

\* tl_year = int(tl_folder.replace("tl_", ""))
ParseYear ==
  /\ pc = "tl_year"
  /\ IF ~IsInt(WithoutTl(tl_folder))
       THEN /\ Fail("ValueError")
            /\ UNCHANGED tl_year
       ELSE /\ tl_year' = ParseInt(WithoutTl(tl_folder))
            /\ pc' = "tl_files"
            /\ err' = err
  /\ UNCHANGED <<data_raw, tl_dir, tl_folder, tl_data>>
  /\ UNCHANGED procvars
  /\ UNCHANGED mapvars

\* tl_files = sorted(...); tl_data = {...}; return tl_data
ReturnData ==
  /\ pc = "tl_files"
  /\ tl_data' = <<TlData(tl_folder, tl_year, tl_dir)>>
  /\ pc' = "returned"
  /\ UNCHANGED <<data_raw, tl_dir, tl_folder, tl_year, err>>
  /\ UNCHANGED procvars
  /\ UNCHANGED mapvars

NextRaw ==
  \/ FirstFolder
  \/ ParseYear
  \/ ReturnData

SpecRaw == InitRaw /\ [][NextRaw]_vars

\* ------------------------------- scratch_gdb and create_gdb, on their own
\* The two methods are called, in any order and with any method argument,
\* on geodatabases that are absent, empty or left over with content; hist
\* is the log of the calls.
Methods == {"create", "delete", "erase"}

InitGdb ==
  /\ scratch \in {NoGdb, NewScratch, StaleScratch}
  /\ gdb \in {NoTlGdb, NewTlGdb, StaleTlGdb}
  /\ hist = <<>>
  /\ pc = "calls"
  /\ err = NoError
  /\ raw = EmptyFn
  /\ workspace = "cwd"
  /\ run = 1
  /\ scratch_fcs = <<>>
  /\ fc_list = <<>>
  /\ i = 1
  /\ final_list = EmptyFn
  /\ tl_fcs = <<>>
  /\ j = 1
  /\ temp_lyr = FALSE
  /\ written = {}
  /\ prev = NoResult
  /\ data_raw = <<DirEntry(TRUE, ToString(Year), TRUE)>>
  /\ tl_dir = {}
  /\ tl_folder = data_raw[1].name
  /\ tl_year = Year
  /\ tl_data = <<TlData(tl_folder, tl_year, tl_dir)>>
  /\ cb_master = <<>>
  /\ aprx = <<>>
  /\ year_list = <<>>
  /\ map_list = <<>>
  /\ map_dict = EmptyFn
  /\ map_year = EmptyFn

Call(op, method, before, after, result) ==
  [op |-> op, method |-> method, before |-> before, after |-> after, result |-> result]

\* self.scratch_gdb(method = ...)
CallScratchGdb ==
  /\ pc = "calls"
  /\ Len(hist) < MaxCalls
  /\ \E method \in Methods :
       /\ scratch' = scratch_gdb(method, scratch)
       /\ hist' = Append(hist, Call("scratch_gdb", method, scratch, scratch_gdb(method, scratch),
                                    scratch_gdb_returns(method, scratch)))
  /\ UNCHANGED scanvars
  /\ UNCHANGED mapvars
  /\ UNCHANGED <<raw, gdb, workspace, pc, err, run, scratch_fcs, fc_list, i,
                 final_list, tl_fcs, j, temp_lyr, written, prev>>

\* self.create_gdb()
CallCreateGdb ==
  /\ pc = "calls"
  /\ Len(hist) < MaxCalls
  /\ gdb' = create_gdb(gdb)
  /\ hist' = Append(hist, Call("create_gdb", "", gdb, create_gdb(gdb), <<"gis", "TL", ToString(Year)>>))
  /\ UNCHANGED scanvars
  /\ UNCHANGED mapvars
  /\ UNCHANGED <<raw, scratch, workspace, pc, err, run, scratch_fcs, fc_list, i,
                 final_list, tl_fcs, j, temp_lyr, written, prev>>

NextGdb ==
  \/ CallScratchGdb
  \/ CallCreateGdb

SpecGdb == InitGdb /\ [][NextGdb]_vars

\* ------------------------------------- the Part 2 driver, map processing
\* The driver runs on a master codebook keyed by year and on a project that
\* holds any maps; hist keeps the maps the project held before the run.
Elements(seq) == {seq[k] : k \in 1..Len(seq)}

InitMaps ==
  /\ cb_master \in {[k \in DOMAIN ys |-> Str(ys[k])] : ys \in Listings(YearPool, MaxYears)}
  /\ aprx \in Listings(MapPool, MaxMaps)
  /\ hist = <<aprx>>
  /\ year_list = <<>>
  /\ map_list = <<>>
  /\ map_dict = EmptyFn
  /\ map_year = EmptyFn
  /\ pc = "year_list"
  /\ err = NoError
  /\ i = 1
  /\ raw = EmptyFn
  /\ scratch = NoGdb
  /\ gdb = NoTlGdb
  /\ workspace = "cwd"
  /\ run = 1
  /\ scratch_fcs = <<>>
  /\ fc_list = <<>>
  /\ final_list = EmptyFn
  /\ tl_fcs = <<>>
  /\ j = 1
  /\ temp_lyr = FALSE
  /\ written = {}
  /\ prev = NoResult
  /\ data_raw = <<DirEntry(TRUE, ToString(Year), TRUE)>>
  /\ tl_dir = {}
  /\ tl_folder = data_raw[1].name
  /\ tl_year = Year
  /\ tl_data = <<TlData(tl_folder, tl_year, tl_dir)>>

\* year_list = [int(y) for y in cb]; map_list = [f"TL{year}" for year in year_list]
YearList ==
  /\ pc = "year_list"
  /\ IF \E k \in DOMAIN cb_master : ~IsDecimal(cb_master[k])
       THEN /\ Fail("ValueError")
            /\ UNCHANGED <<year_list, map_list>>
       ELSE /\ year_list' = [k \in DOMAIN cb_master |-> IntOf(cb_master[k])]
            /\ map_list' = [k \in DOMAIN cb_master |-> MapName(IntOf(cb_master[k]))]
            /\ pc' = "delete_maps"
            /\ err' = err
  /\ UNCHANGED <<cb_master, aprx, map_dict, map_year, i>>
  /\ UNCHANGED scanvars
  /\ UNCHANGED <<raw, scratch, gdb, workspace, run, scratch_fcs, fc_list,
                 final_list, tl_fcs, j, temp_lyr, hist, written, prev>>

DeleteMapsSkipped ==
  /\ pc = "delete_maps"
  /\ aprx' = aprx
  /\ i' = 1
  /\ pc' = "create_maps"
  /\ UNCHANGED <<cb_master, year_list, map_list, map_dict, map_year, err>>
  /\ UNCHANGED scanvars
  /\ UNCHANGED <<raw, scratch, gdb, workspace, run, scratch_fcs, fc_list,
                 final_list, tl_fcs, j, temp_lyr, hist, written, prev>>

\* if aprx.listMaps(): for m in aprx.listMaps(): aprx.deleteItem(m)
DeleteMaps ==
  /\ pc = "delete_maps"
  /\ aprx' = <<>>
  /\ i' = 1
  /\ pc' = "create_maps"
  /\ UNCHANGED <<cb_master, year_list, map_list, map_dict, map_year, err>>
  /\ UNCHANGED scanvars
  /\ UNCHANGED <<raw, scratch, gdb, workspace, run, scratch_fcs, fc_list,
                 final_list, tl_fcs, j, temp_lyr, hist, written, prev>>

\* One pass of "for m in map_list": the maps named m are deleted, then
\* aprx.createMap(m)
CreateNewMap ==
  /\ pc = "create_maps"
  /\ i <= Len(map_list)
  /\ aprx' = CreateMap(DeleteNamed(aprx, map_list[i]), map_list[i])
  /\ i' = i + 1
  /\ UNCHANGED <<cb_master, year_list, map_list, map_dict, map_year, pc, err>>
  /\ UNCHANGED scanvars
  /\ UNCHANGED <<raw, scratch, gdb, workspace, run, scratch_fcs, fc_list,
                 final_list, tl_fcs, j, temp_lyr, hist, written, prev>>

\* map_dict = {}; for m in aprx.listMaps(): map_dict[m.name] = m
StoreMaps ==
  /\ pc = "create_maps"
  /\ i > Len(map_list)
  /\ map_dict' = [n \in Elements(aprx) |-> n]
  /\ pc' = "map_metadata"
  /\ UNCHANGED <<cb_master, aprx, year_list, map_list, map_year, i, err>>
  /\ UNCHANGED scanvars
  /\ UNCHANGED <<raw, scratch, gdb, workspace, run, scratch_fcs, fc_list,
                 final_list, tl_fcs, j, temp_lyr, hist, written, prev>>

\* for m in map_dict.values(): year = int(m.name.replace("TL", ""))
SetMapMetadata ==
  /\ pc = "map_metadata"
  /\ IF \E n \in DOMAIN map_dict : ~IsDecimal(Replace(map_dict[n], <<"T", "L">>))
       THEN /\ Fail("ValueError")
            /\ UNCHANGED map_year
       ELSE /\ map_year' = [n \in DOMAIN map_dict |-> IntOf(Replace(map_dict[n], <<"T", "L">>))]
            /\ pc' = "maps_done"
            /\ err' = err
  /\ UNCHANGED <<cb_master, aprx, year_list, map_list, map_dict, i>>
  /\ UNCHANGED scanvars
  /\ UNCHANGED <<raw, scratch, gdb, workspace, run, scratch_fcs, fc_list,
                 final_list, tl_fcs, j, temp_lyr, hist, written, prev>>

NextMaps ==
  \/ YearList
  \/ DeleteMaps
  \/ CreateNewMap
  \/ StoreMaps
  \/ SetMapMetadata

SpecMaps == InitMaps /\ [][NextMaps]_vars

\* ------------------------------------------------------------ properties
Last == hist[Len(hist)]
Returned == pc = "done"
Reducing == {"clip", "copy", "within", "query", "query20"}

\* C1: when process_shapefiles returns, the registry holds no entry for a
\* layer whose reduced output had zero rows, the county layer included.
C1_NoEmptyLayerRegistered ==
  Returned =>
    \A c \in DOMAIN final_list :
      \A k \in 1..Len(hist) :
        hist[k].layer = final_list[c] => hist[k].count # 0

\* C2: a loop step with method clip, copy, within, query or query20 whose
\* output has zero rows deletes that output from the year geodatabase and
\* adds no registry entry.
C2_EmptyOutputDeletedNotRegistered ==
  [][(/\ AtLayer
      /\ Len(hist') = Len(hist) + 1
      /\ hist'[Len(hist')].method \in Reducing
      /\ hist'[Len(hist')].count = 0)
     => (/\ hist'[Len(hist')].code \notin DOMAIN gdb'.data
         /\ final_list' = final_list)]_vars

C2_Witness ==
  /\ pc = "loop"
  /\ Len(hist) >= 2
  /\ Last.method \in Reducing
  /\ Last.count = 0
  /\ Last.code \notin DOMAIN gdb.data

\* C3: after a layer with a method other than none has been handled (the
\* county layer included) and its output has at least one row, the output
\* is kept, the registry maps its code to its name and the output's alias
\* is the codebook alias of the layer.
C3_NonEmptyKeptRegisteredAliased ==
  (pc = "loop" /\ Len(hist) >= 1 /\ Last.method \in Reducing /\ Last.count > 0) =>
    /\ Last.code \in DOMAIN gdb.data
    /\ Last.code \in DOMAIN final_list
    /\ final_list[Last.code] = Last.layer
    /\ gdb.data[Last.code].alias = cb[Last.layer].alias

\* C4: the county selection is the first layer operation of a run and
\* us_county is never handled again by the dispatch loop.
C4_CountyFirstAndOnce ==
  \A k \in 1..Len(hist) : (hist[k].layer = "us_county") <=> (k = 1)

C4_Witness ==
  /\ pc = "loop"
  /\ Len(hist) >= 3
  /\ hist[1].layer = "us_county"

\* C5: when process_shapefiles returns, the datasets of the year
\* geodatabase are exactly the keys of the returned registry.
C5_GdbIsRegistry ==
  Returned => DOMAIN gdb.data = DOMAIN final_list

\* C6: when process_shapefiles returns, every surviving feature class
\* carries on its own metadata the record of the layer registered under
\* its code.
C6_LayerMetadataApplied ==
  Returned =>
    \A c \in DOMAIN gdb.data :
      /\ c \in DOMAIN final_list
      /\ gdb.data[c].md = process_metadata[final_list[c]]

\* C7: the output of a query / query20 step (and of the county selection)
\* holds exactly the source rows whose state FIPS is '06' and county FIPS
\* is '059', read from the unsuffixed fields for query and from the
\* '20'-suffixed fields for query20.
C7_QueryExact ==
  (pc \in {"build_list", "loop"} /\ Len(hist) >= 1 /\ Last.method \in {"query", "query20"}) =>
    LET src == scratch.fcs[FcName(Last.layer)]
        exp == IF Last.method = "query"
                 THEN {r \in src : r.STATEFP = "06" /\ r.COUNTYFP = "059"}
                 ELSE {r \in src : r.STATEFP20 = "06" /\ r.COUNTYFP20 = "059"}
    IN /\ Last.count = Cardinality(exp)
       /\ IF exp = {}
            THEN Last.code \notin DOMAIN gdb.data
            ELSE Last.code \in DOMAIN gdb.data /\ gdb.data[Last.code].rows = exp

C7_Witness ==
  /\ pc = "loop"
  /\ Len(hist) >= 2
  /\ Last.method = "query20"
  /\ Last.count > 0
  /\ gdb.data[Last.code].rows # {}

\* C8: after a second run on the same raw folder and codebook the year
\* geodatabase and the registry are those of the first run, and nothing in
\* the geodatabase is left over from before the run.
C8_SecondRunSame ==
  (Returned /\ run >= 2) =>
    /\ gdb = prev.gdb
    /\ final_list = prev.final_list
    /\ DOMAIN gdb.data \subseteq written
    /\ ~scratch.exists

C8_Witness ==
  /\ Returned
  /\ run = 2
  /\ Cardinality(DOMAIN gdb.data) >= 2
  /\ gdb = prev.gdb

\* C9: a raw folder with only the county and block-group shapefiles, both
\* non-empty for Orange County, yields exactly the layers CO and BG, each
\* with a metadata title containing the year 2020.
C9_EndToEnd ==
  (/\ Returned
   /\ DOMAIN raw = {"us_county", "06_bg"}
   /\ Select(raw["us_county"], "STATEFP", "COUNTYFP") # {}
   /\ Select(raw["06_bg"], "STATEFP", "COUNTYFP") # {}) =>
    /\ DOMAIN gdb.data = {"CO", "BG"}
    /\ \A c \in DOMAIN gdb.data : TitleHasYear(gdb.data[c].md.title, 2020)

\* C10: the scratch geodatabase is created, empty, before the import;
\* it exists wherever a scratch layer is imported, listed or read; and it
\* does not exist when the function returns.
C10_ScratchScoped ==
  /\ pc = "import" => scratch = NewScratch
  /\ pc \in {"import", "list_scratch", "county", "loop"} => scratch.exists
  /\ Returned => ~scratch.exists

C10_Witness ==
  /\ Returned
  /\ ~scratch.exists
  /\ Len(hist) >= 2

\* The statements between the creation and the deletion of the scratch
\* geodatabase, and those among them that follow the creation of the year
\* geodatabase
ScratchLive == {"import", "list_scratch", "create_gdb", "county", "build_list",
                "loop", "list_tl", "metadata"}
TlGdbLive == {"county", "build_list", "loop", "list_tl", "metadata"}

Processed == {hist[k].layer : k \in 2..Len(hist)}

C14_RegistryMatchesCodebook ==
  \A c \in DOMAIN final_list :
    /\ final_list[c] \in DOMAIN cb
    /\ cb[final_list[c]].code2 = c
    /\ c \in written
    /\ \E k \in 1..Len(hist) : hist[k].layer = final_list[c] /\ hist[k].code = c

C14_Witness ==
  /\ Returned
  /\ "CO" \in DOMAIN final_list
  /\ Cardinality(DOMAIN final_list) >= 2

\* C15: the output of a copy step holds exactly the rows of the source
\* feature class in scratch, whatever their county; as everywhere, an
\* output without rows is deleted.
C15_CopyExact ==
  (pc = "loop" /\ Len(hist) >= 2 /\ Last.method = "copy") =>
    LET src == scratch.fcs[FcName(Last.layer)]
    IN /\ Last.count = Cardinality(src)
       /\ IF src = {}
            THEN Last.code \notin DOMAIN gdb.data
            ELSE Last.code \in DOMAIN gdb.data /\ gdb.data[Last.code].rows = src

C15_Witness ==
  /\ pc = "loop"
  /\ Len(hist) >= 2
  /\ Last.method = "copy"
  /\ Last.code \in DOMAIN gdb.data
  /\ \E r \in gdb.data[Last.code].rows : r.STATEFP # "06"

\* C16: dispatching a layer whose method is none changes nothing: no output
\* is written, no output in the year geodatabase is modified or deleted, the
\* registry stays as it is, and the loop moves on to the next layer.
C16_NoneChangesNothing ==
  [][(Known /\ cb[fc_list[i]].method = "none") =>
       /\ gdb' = gdb
       /\ final_list' = final_list
       /\ written' = written
       /\ scratch' = scratch
       /\ pc' = "loop" /\ i' = i + 1]_vars

C16_Witness ==
  /\ pc = "loop"
  /\ Len(hist) >= 2
  /\ Last.method = "none"
  /\ Last.code \notin DOMAIN gdb.data
  /\ "CO" \in DOMAIN gdb.data
  /\ DOMAIN final_list = {"CO"}

\* C17: after a clip step every output feature lies entirely inside the
\* county boundary that served as the clip mask, every output feature is the
\* inside part of a source feature, and the inside part of every source
\* feature that reaches into the boundary is in the output.
C17_ClipInsideAndComplete ==
  (pc = "loop" /\ Len(hist) >= 2 /\ Last.method = "clip") =>
    LET G == CountyGeom(gdb)
        src == scratch.fcs[FcName(Last.layer)]
        out == IF Last.code \in DOMAIN gdb.data THEN gdb.data[Last.code].rows ELSE {}
    IN /\ \A r \in out : r.geom # {} /\ r.geom \subseteq G
       /\ \A r \in out : \E s \in src : r = [s EXCEPT !.geom = s.geom \cap G]
       /\ \A s \in src : s.geom \cap G # {} => [s EXCEPT !.geom = s.geom \cap G] \in out

C17_Witness ==
  /\ pc = "loop"
  /\ Len(hist) >= 2
  /\ Last.method = "clip"
  /\ Last.code \in DOMAIN gdb.data
  /\ \E s \in scratch.fcs[FcName(Last.layer)] :
       /\ ~(s.geom \subseteq CountyGeom(gdb))
       /\ [s EXCEPT !.geom = s.geom \cap CountyGeom(gdb)] \in gdb.data[Last.code].rows

\* The source and the output of the step the loop has just finished
LastSource == scratch.fcs[FcName(Last.layer)]
LastOutput == IF Last.code \in DOMAIN gdb.data THEN gdb.data[Last.code].rows ELSE {}

\* C18 as stated: the output of a within step holds exactly the source
\* features that lie within the 1000-unit tolerance of the county boundary.
C18_WithinExactTolerance ==
  (pc = "loop" /\ Len(hist) >= 2 /\ Last.method = "within") =>
    LastOutput = {s \in LastSource : WithinDistance(s.geom, CountyGeom(gdb), SearchDistance)}

\* C18 amended: the output of a within step holds exactly the source
\* features that reach the county polygon moved inward by the search
\* distance; every output feature is within the tolerance of the county
\* boundary and none farther away is included, but a feature within the
\* tolerance that does not reach that far inside is left out.
C18_WithinInwardExact ==
  (pc = "loop" /\ Len(hist) >= 2 /\ Last.method = "within") =>
    /\ LastOutput = {s \in LastSource : s.geom \cap Shrink(CountyGeom(gdb), SearchDistance) # {}}
    /\ \A r \in LastOutput : WithinDistance(r.geom, CountyGeom(gdb), SearchDistance)
    /\ Last.count = Cardinality(LastOutput)

C18_Witness ==
  /\ pc = "loop"
  /\ Len(hist) >= 2
  /\ Last.method = "within"
  /\ \E s \in LastSource :
       /\ s.geom \cap CountyGeom(gdb) # {}
       /\ s \notin LastOutput

\* C19: when data/raw holds no sub-folder, get_raw_data raises ValueError,
\* and builds and returns no dictionary.
C19_NoFolderValueError ==
  (SubFolders(data_raw) = <<>> /\ pc # "get_raw_data") =>
    /\ pc = "error"
    /\ err.kind = "ValueError"
    /\ tl_data = <<>>

\* C20: whenever a clip step or a within step executes, the county boundary
\* feature class it passes to the tool exists in the year geodatabase; the
\* county emptiness check has not deleted it.
C20_BoundaryExistsWhenUsed ==
  (Known /\ cb[fc_list[i]].method \in {"clip", "within"}) =>
    /\ gdb.exists
    /\ "CO" \in DOMAIN gdb.data

\* C21: within one run the output written for a layer is not overwritten
\* or deleted by the processing of another layer: once the loop has kept
\* a non-empty output for a layer, that output and its registry entry are
\* those of that layer for the rest of the run, also when a later layer
\* has the same two-letter code.
C21_OutputsNotOverwritten ==
  pc \in {"loop", "metadata"} =>
    \A k \in 1..Len(hist) :
      (hist[k].method \in Reducing /\ hist[k].count > 0) =>
        /\ hist[k].code \in DOMAIN gdb.data
        /\ hist[k].code \in DOMAIN final_list
        /\ final_list[hist[k].code] = hist[k].layer

\* C22: every dataset imported into the scratch geodatabase, feature class
\* or table, the county layer apart, has been dispatched by the loop exactly
\* once when the loop ends, and a table with rows whose method is copy has
\* an output and a registry entry.
C22_EveryDatasetDispatchedOnce ==
  pc = "metadata" =>
    \A n \in DOMAIN scratch.fcs \cup DOMAIN scratch.tbls :
      StripPrefix(n) # "us_county" =>
        /\ Cardinality({k \in 2..Len(hist) : hist[k].layer = StripPrefix(n)}) = 1
        /\ (n \in DOMAIN scratch.tbls /\ scratch.tbls[n] # {}) =>
             /\ cb[StripPrefix(n)].code2 \in DOMAIN gdb.data
             /\ cb[StripPrefix(n)].code2 \in DOMAIN final_list

\* C23: when process_shapefiles has returned, the metadata of the year
\* geodatabase itself carries the title "TL<year> TigerLine Geodatabase" and
\* the geodatabase-level tags, summary and description, whatever the
\* per-layer metadata loop wrote before.
C23_GdbMetadataLast ==
  Returned =>
    /\ gdb.md.title = <<"TL", ToString(Year), "TigerLine Geodatabase">>
    /\ gdb.md.tags = "Orange County, California, OCTL, TigerLine, Geodatabase"
    /\ gdb.md.summary = <<"Orange County TigerLine Geodatabase for the", ToString(Year), "year data">>
    /\ gdb.md.description = <<"Orange County TigerLine Geodatabase for the", ToString(Year), "year data.">>

C23_Witness ==
  /\ Returned
  /\ Len(tl_fcs) >= 1
  /\ j > Len(tl_fcs)
  /\ gdb.md = GdbMd

\* The place of a stem in the order of Python's string comparison
StemPlace(n) == CHOOSE k \in 1..Len(StemOrder) : StemOrder[k] = n

\* C24: get_raw_data returns, for the first sub-folder tl_<year> of
\* data/raw: that folder; the year parsed from its name; as files the
\* ascending list, without duplicates, of the folder's file names without
\* the prefix tl_<year>_ and without everything from the first dot; and as
\* count the length of files.
C24_RawDataContents ==
  pc = "returned" =>
    /\ Len(tl_data) = 1
    /\ LET d == tl_data[1]
           first == SubFolders(data_raw)[1].name
           names == {[year |-> IF f.year = d.year THEN 0 ELSE f.year, layer |-> f.layer] : f \in tl_dir}
       IN /\ d.folder = first
          /\ ToString(d.year) = first.rest
          /\ {d.files[k] : k \in 1..Len(d.files)} = names
          /\ \A a, b \in 1..Len(d.files) : a < b => StemPlace(d.files[a]) < StemPlace(d.files[b])
          /\ d.count = Len(d.files)
          /\ d.count = Cardinality(names)

C24_Witness ==
  /\ pc = "returned"
  /\ Cardinality(tl_dir) = 2
  /\ tl_data[1].count = 1
  /\ tl_data[1].year = 2020

\* The calls of the log with the given operation and method
Calls(op, method) == {k \in 1..Len(hist) : hist[k].op = op /\ hist[k].method = method}

\* C25: after scratch_gdb(method = "create") a scratch geodatabase exists
\* and is empty, whether or not one existed before (with or without
\* content), and the call returns its path.
C25_ScratchCreateFresh ==
  pc = "calls" =>
    \A k \in Calls("scratch_gdb", "create") :
      /\ hist[k].after.exists
      /\ DOMAIN hist[k].after.fcs = {}
      /\ DOMAIN hist[k].after.tbls = {}
      /\ hist[k].result = ScratchPath

C25_Witness ==
  /\ pc = "calls"
  /\ \E k \in Calls("scratch_gdb", "create") :
       hist[k].before.exists /\ DOMAIN hist[k].before.fcs # {}
  /\ \E k \in Calls("scratch_gdb", "create") : ~hist[k].before.exists

\* C26: after scratch_gdb(method = "delete") the scratch geodatabase does
\* not exist; called when none exists it changes nothing and returns
\* without an error; a second delete changes nothing; and a method that is
\* neither create nor delete leaves the scratch geodatabase as it was.
C26_ScratchDeleteIdempotent ==
  pc = "calls" =>
    /\ \A k \in Calls("scratch_gdb", "delete") :
         /\ ~hist[k].after.exists
         /\ ~hist[k].before.exists => hist[k].after = hist[k].before
         /\ scratch_gdb("delete", hist[k].after) = hist[k].after
    /\ \A k \in 1..Len(hist) :
         (hist[k].op = "scratch_gdb" /\ hist[k].method \notin {"create", "delete"}) =>
           hist[k].after = hist[k].before

C26_Witness ==
  /\ pc = "calls"
  /\ \E k \in Calls("scratch_gdb", "delete") : ~hist[k].before.exists
  /\ \E k \in Calls("scratch_gdb", "delete") : hist[k].before.exists
  /\ \E k \in Calls("scratch_gdb", "erase") : hist[k].before.exists

\* C27: after create_gdb the year geodatabase exists and holds no feature
\* class and no table, whether or not it existed before the call.
C27_CreateGdbEmpty ==
  pc = "calls" =>
    \A k \in Calls("create_gdb", "") :
      /\ hist[k].after.exists
      /\ DOMAIN hist[k].after.data = {}

C27_Witness ==
  /\ pc = "calls"
  /\ \E k \in Calls("create_gdb", "") :
       hist[k].before.exists /\ DOMAIN hist[k].before.data # {}

\* C28: on every exit of process_shapefiles, the normal return and the
\* exit with an error at any statement (the import of the raw files
\* included), the current workspace is the working directory again.
C28_WorkspaceRestored ==
  pc \in {"done", "error"} => workspace = "cwd"

\* C30: a pass of the loop over a within layer whose source has no rows
\* takes the skip path: the temporary layer is deleted, no selection and no
\* export run, nothing is written to the year geodatabase and the loop moves
\* on; and whenever a layer is about to be dispatched, temp_lyr does not
\* exist.
C30_EmptyWithinSkips ==
  [][/\ (Known /\ cb[fc_list[i]].method = "within" /\ scratch.fcs[in_fc] = {} /\ pc' = "loop") =>
          /\ i' = i + 1
          /\ hist' = hist
          /\ written' = written
          /\ gdb' = gdb
          /\ final_list' = final_list
          /\ temp_lyr' = FALSE
     /\ AtLayer' => temp_lyr' = FALSE]_vars

\* C29: after the map-creation section of the Part 2 driver the maps of
\* the project are exactly one map TL<year> per year of the master
\* codebook, without duplicates and without a map from before the run,
\* whatever the project held; and the year parsed back from each map name
\* is the codebook year the map was created for.
C29_MapsPerYear ==
  /\ pc \in {"map_metadata", "maps_done"} =>
       /\ Elements(aprx) = {<<"T", "L">> \o cb_master[k] : k \in DOMAIN cb_master}
       /\ Len(aprx) = Len(cb_master)
       /\ \A a, b \in DOMAIN aprx : a # b => aprx[a] # aprx[b]
  /\ pc = "maps_done" =>
       /\ DOMAIN map_year = Elements(aprx)
       /\ \A n \in DOMAIN map_year :
            /\ Str(map_year[n]) \in Elements(cb_master)
            /\ n = <<"T", "L">> \o Str(map_year[n])

C29_Witness ==
  /\ pc = "maps_done"
  /\ Len(aprx) = 2
  /\ <<"M", "a", "p">> \in Elements(hist[1])
  /\ MapName(2020) \in Elements(hist[1])
  /\ MapName(2020) \in Elements(aprx)

====
